---- MODULE Spec2Model ----
(***************************************************************************)
(* Model of static/js/starmap.js: the StarMap sky-plot renderer and the    *)
(* ExoClassifyApp form controller.                                         *)
(*                                                                         *)
(* Real-valued quantities are exact rationals with a fixed denominator:    *)
(*   ra, dec, radius, period   numerator over RandMod                      *)
(*   scaled pixel positions    numerator over (domain width)               *)
(*   opacities                 tenths                                      *)
(* Math.random() is a pseudo-random generator (a linear congruential       *)
(* generator over RandMod values k/RandMod, k in 0..RandMod-1) whose seed  *)
(* is chosen nondeterministically.                                         *)
(***************************************************************************)
EXTENDS Integers, Sequences, FiniteSets, TLC

VARIABLES
    \* ---- StarMap ----
    width, height,      \* constructor arguments
    rng,                \* state of Math.random()
    smPc,               \* position of StarMap.init: "fetch", "json", "ready", "failed"
    smResponse,         \* the response of GET /api/exoplanets once fetch resolved
    exoplanets,         \* this.exoplanets: [kind, items]
    svg,                \* children of the <svg> node, in document order
    xScale, yScale,     \* this.xScale, this.yScale
    transition,         \* pending opacity transition: marker index -> target, or <<>>
    tooltip,            \* [opacity, datum]
    listeners,          \* listeners of 'exoplanetSelected' registered on document
    dispatched,         \* details of the events dispatched on document, in order
    received,           \* per listener: details received, in order
    fetchCount,         \* number of GET /api/exoplanets requests issued by StarMap
    mapUnhandled,       \* number of unhandled rejections of StarMap.init
    \* history of the calls made on the map
    lastFilter, filterCalls, clicks, renders,
    dimmed,             \* a marker now on the svg has been dimmed since it was drawn
    \* ---- ExoClassifyApp ----
    region,             \* per form: the content of its output region
    requests,           \* submissions whose handler is suspended at an await
    submitted,          \* the form of each submission, in order (its index is its id)
    sentCount,          \* per endpoint: number of requests sent
    settled,            \* submissions in the order their handlers finished
    appUnhandled,       \* submissions whose handler's promise rejected
    statsPc,            \* position of loadInitialData: "fetch", "json", "done"
    statsResponse,      \* the response of the statistics fetch once it resolved
    counters,           \* per counter element: its text content
    notifications,      \* the notification nodes now in document.body, in order
    notified,           \* number of notifications ever appended to document.body
    consoleErrors,      \* number of console.error calls of loadExoplanetStatistics
    statsFetchCount     \* number of GET /api/exoplanets issued by ExoClassifyApp

mapVars == <<width, height, rng, smPc, smResponse, exoplanets, svg, xScale, yScale,
             transition, tooltip, listeners, dispatched, received, fetchCount,
             mapUnhandled, lastFilter, filterCalls, clicks, renders, dimmed>>
formVars == <<region, requests, submitted, sentCount, settled, appUnhandled>>
statsVars == <<statsPc, statsResponse, counters, notifications, notified,
               consoleErrors, statsFetchCount>>
appVars == <<formVars, statsVars>>
vars == <<mapVars, appVars>>

(***************************************************************************)
(* Bounds of the model.                                                    *)
(***************************************************************************)
RandMod == 16           \* Math.random() takes the values k/RandMod
MaxSeed == 1            \* seeds 0..MaxSeed
MaxPointer == 2         \* pointer events reach markers 1..MaxPointer
MaxClicks == 1          \* clicks per run
MaxListeners == 2       \* listeners 1..MaxListeners
MaxFilterCalls == 2     \* filterByClassification calls per run
MaxRenders == 2         \* render() calls per run
FixBits == 12           \* fraction bits of the fixed-point logarithm
MaxSubmits == 2         \* form submissions per run

(***************************************************************************)
(* Program constants.                                                      *)
(***************************************************************************)
MarginTop == 20
MarginRight == 20
MarginBottom == 30
MarginLeft == 40
SampleCount == 100
RaSpan == 360
DecSpan == 180
DecMax == 90
RadiusSpan == 15
PeriodSpan == 100
FirstKoi == 1000
FullOpacity == 8
DimOpacity == 1
TooltipShown == 9

Classifications == <<"Confirmed Exoplanet", "Candidate", "False Positive">>
ClassSet == {Classifications[i] : i \in 1..3}

colorScheme(c) ==
    CASE c = "Confirmed Exoplanet" -> "#00ff00"
      [] c = "Candidate" -> "#ffff00"
      [] c = "False Positive" -> "#ff4444"
      [] OTHER -> "undefined"

\* The constructor's callers: the page (800 x 600) and other sizes.
PageDim == <<800, 600>>
Dims == {PageDim, <<300, 51>>, <<200, 50>>, <<100, 40>>}

(***************************************************************************)
(* Math.random and generateSampleData.                                     *)
(***************************************************************************)
\* Math.random(): the value returned is s / RandMod, the next state NextRandom(s).
NextRandom(s) == (5 * s + 3) % RandMod

RECURSIVE Advance(_, _)
Advance(s, n) == IF n = 0 THEN s ELSE Advance(NextRandom(s), n - 1)

Floor(num, den) == num \div den

\* Math.random() calls per sample record, in the order of the object literal:
\* ra, dec, classification, period, radius, temperature, depth, snr, magnitude.
DrawsPerRecord == 9

\* SampleRecord with the declination not centred: Math.random() * 180.
SampleRecordNotCentred(s, i) ==
    LET d(k) == Advance(s, k - 1) IN
    [ id |-> FirstKoi + i,
      ra |-> d(1) * RaSpan,
      dec |-> d(2) * DecSpan,
      classification |-> Classifications[Floor(d(3) * 3, RandMod) + 1],
      period |-> d(4) * PeriodSpan,
      radius |-> d(5) * RadiusSpan ]

\* The record pushed at iteration i, with the generator in state s.
SampleRecord(s, i) ==
    LET d(k) == Advance(s, k - 1) IN
    [ id |-> FirstKoi + i,
      ra |-> d(1) * RaSpan,
      dec |-> (2 * d(2) - RandMod) * (DecSpan \div 2),
      classification |-> Classifications[Floor(d(3) * 3, RandMod) + 1],
      period |-> d(4) * PeriodSpan,
      radius |-> d(5) * RadiusSpan ]

RECURSIVE SampleLoop(_, _, _)
SampleLoop(s, i, data) ==
    IF i < SampleCount /\ s \in 0..(RandMod - 1) /\ Len(data) = i
    THEN SampleLoop(Advance(s, DrawsPerRecord), i + 1, Append(data, SampleRecord(s, i)))
    ELSE [data |-> data, rng |-> s]

\* generateSampleData(): the list returned and the generator's state afterwards.
generateSampleData(s) == SampleLoop(s, 0, <<>>)

(***************************************************************************)
(* Math.log and calculateSize.                                             *)
(* Math.log(p / q) for p >= q > 0 is computed in fixed point: the base-2   *)
(* logarithm by repeated squaring to LogBits fraction bits, times ln 2.    *)
(* The result is a numerator over LogDen.                                  *)
(***************************************************************************)
FixOne == 2 ^ FixBits
LogBits == 8
LogDen == (2 ^ LogBits) * 1000     \* MathLog(p, q) / LogDen approximates ln(p / q)

RECURSIVE IntLog2(_, _)
IntLog2(p, q) == IF 2 * q <= p THEN 1 + IntLog2(p, 2 * q) ELSE 0

RECURSIVE FracLog2(_, _)
FracLog2(m, n) ==
    IF n = 0 THEN 0
    ELSE LET sq == (m * m) \div FixOne IN
         IF sq >= 2 * FixOne
         THEN 2 ^ (n - 1) + FracLog2(sq \div 2, n - 1)
         ELSE FracLog2(sq, n - 1)

Log2Fix(p, q) ==
    LET e == IntLog2(p, q)
        m == (p * FixOne) \div (q * (2 ^ e))
    IN e * (2 ^ LogBits) + FracLog2(m, LogBits)

MathLog(p, q) == Log2Fix(p, q) * 693

\* classificationMultiplier[c], in tenths; absent for any other key.
HasMultiplier(c) == c \in ClassSet
classificationMultiplier(c) ==
    CASE c = "Confirmed Exoplanet" -> 15
      [] c = "Candidate" -> 12
      [] c = "False Positive" -> 8

\* calculateSize: a numerator over 10 * LogDen, or NaN when the
\* classification is no key of the multiplier table (baseSize * undefined).
NaN == [nan |-> TRUE, num |-> 0]
Num(n) == [nan |-> FALSE, num |-> n]

calculateSize(exoplanet) ==
    LET baseSize == MathLog(exoplanet.radius + RandMod, RandMod) * 2 IN
    IF HasMultiplier(exoplanet.classification)
    THEN Num(baseSize * classificationMultiplier(exoplanet.classification))
    ELSE NaN

(***************************************************************************)
(* d3.scaleLinear().domain([d0, d1]).range([r0, r1]): the value of the     *)
(* scale at x is r0 * (1 - t) + r1 * t with t = (x - d0) / (d1 - d0); here *)
(* as a numerator over (d1 - d0).                                          *)
(***************************************************************************)
scaleLinear(d0, d1, r0, r1) == [d0 |-> d0, d1 |-> d1, r0 |-> r0, r1 |-> r1]
ScaleApply(s, x) == s.r0 * ((s.d1 - s.d0) - (x - s.d0)) + s.r1 * (x - s.d0)
ScaleDen(s) == s.d1 - s.d0

\* The scales init builds; ra and dec are numerators over RandMod.
MakeXScale(w) == scaleLinear(0, RaSpan * RandMod, MarginLeft, w - MarginRight)
\* MakeYScale with the range not inverted.
MakeYScaleNotInverted(h) ==
    scaleLinear((0 - DecMax) * RandMod, DecMax * RandMod, MarginTop, h - MarginBottom)


MakeYScale(h) == scaleLinear((0 - DecMax) * RandMod, DecMax * RandMod,
                             h - MarginBottom, MarginTop)
NoScale == scaleLinear(0, 0, 0, 0)

(***************************************************************************)
(* The backend: what GET /api/exoplanets can answer.                       *)
(***************************************************************************)
Rec(id, ra, dec, c, period, radius) ==
    [ id |-> id, ra |-> ra * RandMod, dec |-> dec * RandMod, classification |-> c,
      period |-> period * RandMod, radius |-> radius * RandMod ]

BackendA == << Rec(1, 10, 45, "Confirmed Exoplanet", 10, 1),
               Rec(2, 200, 0 - 30, "Candidate", 3, 2),
               Rec(3, 359, 90, "False Positive", 50, 11) >>
BackendB == << Rec(7, 0, 0 - 90, "Unknown", 1, 1),
               Rec(8, 180, 0, "Candidate", 2, 1) >>

\* A parsed JSON value: an array of records, another object, or null.
Arr(items) == [kind |-> "array", items |-> items]
Obj == [kind |-> "object", items |-> <<>>]
Null == [kind |-> "null", items |-> <<>>]
JsonValues == {Arr(BackendA), Arr(BackendB), Arr(<<>>), Obj, Null}

\* A settled fetch: rejected, or resolved with a status and a body that
\* response.json() parses or not.
Rejected == [kind |-> "rejected", ok |-> FALSE, parses |-> FALSE, value |-> Null]
Resolved(ok, parses, v) == [kind |-> "resolved", ok |-> ok, parses |-> parses, value |-> v]
Pending == [kind |-> "pending", ok |-> FALSE, parses |-> FALSE, value |-> Null]
\* A success response carries any JSON value or no JSON at all; a non-success
\* response carries an error object, an array or no JSON.
Responses == {Resolved(TRUE, TRUE, v) : v \in JsonValues}
             \cup {Resolved(FALSE, TRUE, v) : v \in {Obj, Arr(BackendA)}}
             \cup {Resolved(ok, FALSE, Null) : ok \in BOOLEAN}

(***************************************************************************)
(* StarMap.render.                                                         *)
(***************************************************************************)
Circle(d, xs, ys) ==
    [ tag |-> "circle", class |-> "exoplanet", datum |-> <<d>>,
      cx |-> ScaleApply(xs, d.ra), cy |-> ScaleApply(ys, d.dec),
      r |-> calculateSize(d), fill |-> colorScheme(d.classification),
      opacity |-> FullOpacity ]
Decoration(tag, opacity) ==
    [ tag |-> tag, class |-> "", datum |-> <<>>, cx |-> 0, cy |-> 0,
      r |-> Num(0), fill |-> "", opacity |-> opacity ]

generateConstellationData == <<"Ursa Major">>

addConstellationLines(nodes) ==
    nodes \o [i \in 1..Len(generateConstellationData) |-> Decoration("path", 3)]

addMilkyWay(nodes) == nodes \o <<Decoration("ellipse", 1), Decoration("defs", 10)>>

\* selection.data(value) throws a TypeError on null (it reads value.length);
\* an object that is no array binds no datum.
DataThrows(exo) == exo.kind = "null"
BoundData(exo) == IF exo.kind = "array" THEN exo.items ELSE <<>>

\* render(): the children of the svg afterwards, and whether it threw.
render(exo, xs, ys) ==
    IF DataThrows(exo)
    THEN [nodes |-> <<>>, threw |-> TRUE]
    ELSE LET data == BoundData(exo)
             points == [i \in 1..Len(data) |-> Circle(data[i], xs, ys)]
         IN [nodes |-> addMilkyWay(addConstellationLines(points)), threw |-> FALSE]

IsMarker(n) == n.tag = "circle" /\ n.class = "exoplanet"
MarkerIdx(nodes) == {i \in 1..Len(nodes) : IsMarker(nodes[i])}
DatumOf(n) == n.datum[1]

(***************************************************************************)
(* StarMap: construction and init.                                         *)
(***************************************************************************)
NoTooltip == [opacity |-> 0, html |-> <<>>]

\* new StarMap(containerId, width, height) up to the first await of init,
\* then the registration of the page's own listener (listener 1).
MapConstructed(dims, seeds) ==
    /\ \E d \in dims : width = d[1] /\ height = d[2]
    /\ rng \in seeds
    /\ smPc = "fetch"
    /\ smResponse = Pending
    /\ exoplanets = Arr(<<>>)
    /\ svg = <<>>
    /\ xScale = NoScale /\ yScale = NoScale
    /\ transition = <<>>
    /\ tooltip = NoTooltip
    /\ listeners = {1}
    /\ dispatched = <<>>
    /\ received = [l \in 1..MaxListeners |-> <<>>]
    /\ fetchCount = 1
    /\ mapUnhandled = 0
    /\ lastFilter = "none" /\ filterCalls = 0 /\ clicks = <<>> /\ renders = 0
    /\ dimmed = FALSE

\* loadExoplanetData's outcome for a settled fetch: the list assigned and the
\* generator's state.
loadExoplanetData(resp, s) ==
    IF resp.kind = "resolved" /\ resp.parses
    THEN [exoplanets |-> resp.value, rng |-> s]
    ELSE LET g == generateSampleData(s) IN [exoplanets |-> Arr(g.data), rng |-> g.rng]

\* The rest of init once loadExoplanetData has settled: svg, scales, tooltip, render.
InitAfterLoad(resp) ==
    LET loaded == loadExoplanetData(resp, rng)
        xs == MakeXScale(width)
        ys == MakeYScale(height)
        out == render(loaded.exoplanets, xs, ys)
    IN /\ smResponse' = resp
       /\ exoplanets' = loaded.exoplanets
       /\ rng' = loaded.rng
       /\ xScale' = xs /\ yScale' = ys
       /\ tooltip' = NoTooltip
       /\ svg' = out.nodes
       /\ renders' = renders + 1
       /\ smPc' = IF out.threw THEN "failed" ELSE "ready"
       /\ mapUnhandled' = IF out.threw THEN mapUnhandled + 1 ELSE mapUnhandled
       /\ UNCHANGED <<width, height, transition, listeners, dispatched, received,
                      fetchCount, lastFilter, filterCalls, clicks, dimmed>>

\* fetch('/api/exoplanets') rejects: the catch block, then the rest of init.
FetchReject ==
    /\ smPc = "fetch"
    /\ InitAfterLoad(Rejected)
    /\ UNCHANGED appVars

\* fetch resolves: loadExoplanetData suspends at response.json().
FetchResolve ==
    /\ smPc = "fetch"
    /\ \E resp \in Responses : smResponse' = resp
    /\ smPc' = "json"
    /\ UNCHANGED <<width, height, rng, exoplanets, svg, xScale, yScale, transition,
                   tooltip, listeners, dispatched, received, fetchCount, mapUnhandled,
                   lastFilter, filterCalls, clicks, renders, dimmed>>
    /\ UNCHANGED appVars

\* response.json() settles: the assignment or the catch block, then the rest of init.
JsonSettle ==
    /\ smPc = "json"
    /\ InitAfterLoad(smResponse)
    /\ UNCHANGED appVars

(***************************************************************************)
(* StarMap: operations on the rendered map.                                *)
(***************************************************************************)
SvgCreated == smPc \in {"ready", "failed"}

FilterValues == {"all", "Unknown"} \cup ClassSet

\* filterByClassification without the 'all' branch.
filterByClassificationNoAll(classification, nodes) ==
    [i \in MarkerIdx(nodes) |->
        IF DatumOf(nodes[i]).classification = classification
        THEN FullOpacity ELSE DimOpacity]

\* filterByClassification dimming the matching markers.
filterByClassificationInverted(classification, nodes) ==
    [i \in MarkerIdx(nodes) |->
        IF classification = "all" THEN FullOpacity
        ELSE IF DatumOf(nodes[i]).classification = classification
             THEN DimOpacity ELSE FullOpacity]

\* filterByClassification(classification): the opacity each marker's
\* transition ends at, by position among the svg's children.
filterByClassification(classification, nodes) ==
    [i \in MarkerIdx(nodes) |->
        IF classification = "all" THEN FullOpacity
        ELSE IF DatumOf(nodes[i]).classification = classification
             THEN FullOpacity ELSE DimOpacity]

\* A call of filterByClassification: it schedules the transition (replacing
\* any transition still running on the same markers).
Filter ==
    /\ SvgCreated
    /\ filterCalls < MaxFilterCalls
    /\ \E v \in FilterValues :
          /\ transition' = filterByClassification(v, svg)
          /\ lastFilter' = v
    /\ filterCalls' = filterCalls + 1
    /\ UNCHANGED <<width, height, rng, smPc, smResponse, exoplanets, svg, xScale,
                   yScale, tooltip, listeners, dispatched, received, fetchCount,
                   mapUnhandled, clicks, renders, dimmed>>
    /\ UNCHANGED appVars

TransitionPending == DOMAIN transition # {}

\* The 500 ms transition ends: every marker has its target opacity.
TransitionEnd ==
    /\ TransitionPending
    /\ svg' = [i \in 1..Len(svg) |->
                 IF i \in DOMAIN transition
                 THEN [svg[i] EXCEPT !.opacity = transition[i]]
                 ELSE svg[i]]
    /\ transition' = <<>>
    /\ dimmed' = (dimmed \/ \E i \in DOMAIN transition : transition[i] = DimOpacity)
    /\ UNCHANGED <<width, height, rng, smPc, smResponse, exoplanets, xScale, yScale,
                   tooltip, listeners, dispatched, received, fetchCount, mapUnhandled,
                   lastFilter, filterCalls, clicks, renders>>
    /\ UNCHANGED appVars

\* Markers the pointer reaches.
Pointed == {i \in MarkerIdx(svg) : i <= MaxPointer}

getTooltipContent(exoplanet) ==
    [ name |-> exoplanet.id, classification |-> exoplanet.classification,
      period |-> exoplanet.period, radius |-> exoplanet.radius ]

\* mouseover on a marker.
MouseOver ==
    /\ \E i \in Pointed :
          tooltip' = [opacity |-> TooltipShown,
                      html |-> <<getTooltipContent(DatumOf(svg[i]))>>]
    /\ UNCHANGED <<width, height, rng, smPc, smResponse, exoplanets, svg, xScale,
                   yScale, transition, listeners, dispatched, received, fetchCount,
                   mapUnhandled, lastFilter, filterCalls, clicks, renders, dimmed>>
    /\ UNCHANGED appVars

\* mouseout of a marker.
MouseOut ==
    /\ Pointed # {}
    /\ tooltip.opacity # 0
    /\ tooltip' = [tooltip EXCEPT !.opacity = 0]
    /\ UNCHANGED <<width, height, rng, smPc, smResponse, exoplanets, svg, xScale,
                   yScale, transition, listeners, dispatched, received, fetchCount,
                   mapUnhandled, lastFilter, filterCalls, clicks, renders, dimmed>>
    /\ UNCHANGED appVars

\* showExoplanetDetails calling only the page's own listener.
showExoplanetDetailsOwnListener(exoplanet) ==
    [ dispatched |-> Append(dispatched, exoplanet),
      received |-> [l \in DOMAIN received |->
                       IF l = 1 THEN Append(received[l], exoplanet)
                       ELSE received[l]] ]

\* showExoplanetDetails(exoplanet): document.dispatchEvent delivers the event,
\* synchronously, to every listener registered on document.
showExoplanetDetails(exoplanet) ==
    [ dispatched |-> Append(dispatched, exoplanet),
      received |-> [l \in DOMAIN received |->
                       IF l \in listeners THEN Append(received[l], exoplanet)
                       ELSE received[l]] ]

\* click on a marker.
Click ==
    /\ Len(clicks) < MaxClicks
    /\ \E i \in Pointed :
          LET out == showExoplanetDetails(DatumOf(svg[i])) IN
          /\ clicks' = Append(clicks, i)
          /\ dispatched' = out.dispatched
          /\ received' = out.received
    /\ UNCHANGED <<width, height, rng, smPc, smResponse, exoplanets, svg, xScale,
                   yScale, transition, tooltip, listeners, fetchCount, mapUnhandled,
                   lastFilter, filterCalls, renders, dimmed>>
    /\ UNCHANGED appVars

\* Another part of the page registers a listener of 'exoplanetSelected'.
AddListener ==
    /\ \E l \in (1..MaxListeners) \ listeners : listeners' = listeners \cup {l}
    /\ UNCHANGED <<width, height, rng, smPc, smResponse, exoplanets, svg, xScale,
                   yScale, transition, tooltip, dispatched, received, fetchCount,
                   mapUnhandled, lastFilter, filterCalls, clicks, renders, dimmed>>
    /\ UNCHANGED appVars

\* A call of render() after init: the svg is cleared (with it the markers'
\* running transitions) and drawn again from this.exoplanets.
Render ==
    /\ SvgCreated
    /\ renders < MaxRenders
    /\ svg' = render(exoplanets, xScale, yScale).nodes
    /\ transition' = <<>>
    /\ lastFilter' = "none"
    /\ renders' = renders + 1
    /\ dimmed' = FALSE
    /\ UNCHANGED <<width, height, rng, smPc, smResponse, exoplanets, xScale, yScale,
                   tooltip, listeners, dispatched, received, fetchCount, mapUnhandled,
                   filterCalls, clicks>>
    /\ UNCHANGED appVars

(***************************************************************************)
(* ExoClassifyApp: the three form handlers.                                *)
(***************************************************************************)
Forms == {"classify", "validate", "characterize"}

Endpoint(f) ==
    CASE f = "classify" -> "/api/classify"
      [] f = "validate" -> "/api/validate"
      [] f = "characterize" -> "/api/characterize"
Endpoints == {Endpoint(f) : f \in Forms}

LoadingMessage(f) ==
    CASE f = "classify" -> "Analizando datos..."
      [] f = "validate" -> "Analizando riesgo de contaminacion..."
      [] f = "characterize" -> "Simulando espectro JWST..."

\* (accents dropped)
GenericMessage(f) ==
    CASE f = "classify" -> "Error en clasificacion"
      [] f = "validate" -> "Error en validacion"
      [] f = "characterize" -> "Error en caracterizacion"

ResultKind(f) ==
    CASE f = "classify" -> "classification"
      [] f = "validate" -> "validation"
      [] f = "characterize" -> "characterization"

\* Messages of the errors the runtime throws, and of the server's error field.
FetchErrorMessage == "Failed to fetch"
SyntaxErrorMessage == "Unexpected token in JSON"
TypeErrorMessage == "Cannot read properties of undefined"
ServerMessage == "server error"

\* The content of an output region; by is the submission that wrote it.
Absent == [kind |-> "absent", msg |-> "", by |-> 0]
Empty == [kind |-> "empty", msg |-> "", by |-> 0]
showLoading(f, id) == [kind |-> "loading", msg |-> LoadingMessage(f), by |-> id]
displayResult(f, id) == [kind |-> ResultKind(f), msg |-> "", by |-> id]
displayError(message, id) == [kind |-> "error", msg |-> message, by |-> id]

\* The body of a response: JSON of the endpoint's shape, {error: ...}, {},
\* null, or text that is no JSON.
Bodies == {"valid", "error", "empty", "null", "unparseable"}

\* JsonOutcome without the test of response.ok.
JsonOutcomeNoStatusTest(f, id, ok, body) ==
    IF body = "unparseable" THEN displayError(SyntaxErrorMessage, id)
    ELSE IF body = "valid" THEN displayResult(f, id)
         ELSE displayError(TypeErrorMessage, id)

\* What a handler writes when response.json() settles on a response with
\* this status and body: the result panel, or the catch block's error panel.
\* The display functions throw a TypeError on JSON without the endpoint's
\* fields (Object.entries(undefined), undefined.toUpperCase(), undefined.toFixed()).
JsonOutcome(f, id, ok, body) ==
    IF body = "unparseable" THEN displayError(SyntaxErrorMessage, id)
    ELSE IF ok
         THEN IF body = "valid" THEN displayResult(f, id)
              ELSE displayError(TypeErrorMessage, id)
         ELSE IF body = "null" THEN displayError(TypeErrorMessage, id)
              ELSE IF body = "error" THEN displayError(ServerMessage, id)
              ELSE displayError(GenericMessage(f), id)

\* The catch block when fetch itself rejects.
FetchOutcome(f, id) == displayError(FetchErrorMessage, id)

\* WritePanel that drops the panel of a submission that is not the form's latest.
WritePanelIfLatest(reg, f, panel) ==
    IF \E j \in 1..Len(submitted) : j > panel.by /\ submitted[j] = f
    THEN reg
    ELSE [reg EXCEPT ![f] = panel]

\* container.innerHTML = panel.
WritePanel(reg, f, panel) == [reg EXCEPT ![f] = panel]

Request(id, f, pc, ok, body) == [id |-> id, form |-> f, pc |-> pc, ok |-> ok, body |-> body]

\* The four counter elements of the statistics readout.
CounterIds == {"total-exoplanets", "confirmed-exoplanets", "candidate-exoplanets",
               "false-positive-exoplanets"}

\* The text of a counter element: the element is missing, it shows the text
\* of the page as served, or it shows a number written by the script.
NoCounter == [kind |-> "absent", n |-> 0]
PriorText == [kind |-> "prior", n |-> 0]
toLocaleString(n) == [kind |-> "number", n |-> n]

AllCounters == [CounterIds -> {NoCounter, PriorText}]
FullCounters == [id \in CounterIds |-> PriorText]

\* new ExoClassifyApp() on a page whose output regions and counter elements
\* exist or not: init registers the submit handlers and runs loadInitialData
\* up to the fetch of loadExoplanetStatistics.
AppConstructed(pages, counterPages) ==
    /\ region \in pages
    /\ requests = {}
    /\ submitted = <<>>
    /\ sentCount = [e \in Endpoints |-> 0]
    /\ settled = <<>>
    /\ appUnhandled = {}
    /\ statsPc = "fetch"
    /\ statsResponse = Pending
    /\ counters \in counterPages
    /\ notifications = <<>>
    /\ notified = 0
    /\ consoleErrors = 0
    /\ statsFetchCount = 1

AllPages == [Forms -> {Absent, Empty}]
FullPage == [f \in Forms |-> Empty]

\* submit of form f: handleClassification / handleValidation /
\* handleCharacterization up to its first await. showLoading throws on a
\* missing region, outside of the try block: the handler's promise rejects.
Submit ==
    /\ Len(submitted) < MaxSubmits
    /\ \E f \in Forms :
          LET id == Len(submitted) + 1 IN
          /\ submitted' = Append(submitted, f)
          /\ IF region[f] = Absent
             THEN /\ appUnhandled' = appUnhandled \cup {id}
                  /\ UNCHANGED <<region, requests, sentCount>>
             ELSE /\ region' = WritePanel(region, f, showLoading(f, id))
                  /\ sentCount' = [sentCount EXCEPT ![Endpoint(f)] = @ + 1]
                  /\ requests' = requests \cup {Request(id, f, "fetch", FALSE, "none")}
                  /\ UNCHANGED appUnhandled
    /\ UNCHANGED settled
    /\ UNCHANGED statsVars
    /\ UNCHANGED mapVars

\* fetch rejects (network error): the catch block writes the error panel.
FormFetchReject ==
    /\ \E r \in requests :
          /\ r.pc = "fetch"
          /\ region' = WritePanel(region, r.form, FetchOutcome(r.form, r.id))
          /\ requests' = requests \ {r}
          /\ settled' = Append(settled, r.id)
    /\ UNCHANGED <<submitted, sentCount, appUnhandled>>
    /\ UNCHANGED statsVars
    /\ UNCHANGED mapVars

\* fetch resolves with a response: the handler suspends at response.json().
FormFetchResolve ==
    /\ \E r \in requests : \E ok \in BOOLEAN, body \in Bodies :
          /\ r.pc = "fetch"
          /\ requests' = (requests \ {r}) \cup {Request(r.id, r.form, "json", ok, body)}
    /\ UNCHANGED <<region, submitted, sentCount, settled, appUnhandled>>
    /\ UNCHANGED statsVars
    /\ UNCHANGED mapVars

\* response.json() settles: the result panel or the catch block's error panel.
FormJsonSettle ==
    /\ \E r \in requests :
          /\ r.pc = "json"
          /\ region' = WritePanel(region, r.form, JsonOutcome(r.form, r.id, r.ok, r.body))
          /\ requests' = requests \ {r}
          /\ settled' = Append(settled, r.id)
    /\ UNCHANGED <<submitted, sentCount, appUnhandled>>
    /\ UNCHANGED statsVars
    /\ UNCHANGED mapVars

(***************************************************************************)
(* ExoClassifyApp.loadInitialData and the statistics readout.              *)
(***************************************************************************)
CountClass(items, c) == Cardinality({i \in 1..Len(items) : items[i].classification = c})

\* The stats object of loadExoplanetStatistics, keyed by the element that
\* updateStatisticsDisplay writes it to.
StatsOf(items) ==
    [id \in CounterIds |->
        CASE id = "total-exoplanets" -> Len(items)
          [] id = "confirmed-exoplanets" -> CountClass(items, "Confirmed Exoplanet")
          [] id = "candidate-exoplanets" -> CountClass(items, "Candidate")
          [] id = "false-positive-exoplanets" -> CountClass(items, "False Positive")]

updateStatisticsDisplay(ctrs, stats) ==
    [id \in CounterIds |->
        IF ctrs[id] = NoCounter THEN ctrs[id] ELSE toLocaleString(stats[id])]

\* The try block of loadExoplanetStatistics throws: fetch rejected, the body
\* is no JSON, or the value has no length and filter of an array.
StatsThrows(resp) ==
    \/ resp.kind = "rejected"
    \/ ~resp.parses
    \/ resp.value.kind # "array"

\* loadExoplanetStatistics from the settled response on: the counters and the
\* number of console.error calls it leaves. Its catch block takes every
\* exception, so its promise never rejects.
loadExoplanetStatistics(resp, ctrs, errors) ==
    IF StatsThrows(resp)
    THEN [counters |-> ctrs, errors |-> errors + 1, rejected |-> FALSE]
    ELSE [counters |-> updateStatisticsDisplay(ctrs, StatsOf(resp.value.items)),
          errors |-> errors, rejected |-> FALSE]

showNotification(message, type) == [message |-> message, type |-> type]

\* loadInitialData after its await: the notification it shows.
loadInitialData(rejected) ==
    IF rejected
    THEN showNotification("Error al cargar datos iniciales", "error")
    ELSE showNotification("Aplicación lista para producción", "success")

\* The statistics load settles with resp: loadExoplanetStatistics finishes
\* and loadInitialData shows its notification.
StatsSettle(resp) ==
    LET out == loadExoplanetStatistics(resp, counters, consoleErrors) IN
    /\ statsPc' = "done"
    /\ statsResponse' = resp
    /\ counters' = out.counters
    /\ consoleErrors' = out.errors
    /\ notifications' = Append(notifications, loadInitialData(out.rejected))
    /\ notified' = notified + 1
    /\ UNCHANGED statsFetchCount

\* The statistics fetch rejects (network error).
StatsFetchReject ==
    /\ statsPc = "fetch"
    /\ StatsSettle(Rejected)
    /\ UNCHANGED formVars
    /\ UNCHANGED mapVars

\* The statistics fetch resolves: loadExoplanetStatistics suspends at
\* response.json().
StatsFetchResolve ==
    /\ statsPc = "fetch"
    /\ \E resp \in Responses : statsResponse' = resp
    /\ statsPc' = "json"
    /\ UNCHANGED <<counters, notifications, notified, consoleErrors, statsFetchCount>>
    /\ UNCHANGED formVars
    /\ UNCHANGED mapVars

\* response.json() of the statistics fetch settles.
StatsJsonSettle ==
    /\ statsPc = "json"
    /\ StatsSettle(statsResponse)
    /\ UNCHANGED formVars
    /\ UNCHANGED mapVars

\* The 5000 ms timer of the oldest notification fires: the node is removed.
NotificationExpire ==
    /\ notifications # <<>>
    /\ notifications' = Tail(notifications)
    /\ UNCHANGED <<statsPc, statsResponse, counters, notified, consoleErrors,
                   statsFetchCount>>
    /\ UNCHANGED formVars
    /\ UNCHANGED mapVars

\* The map with any constructor arguments: loading, filtering, rendering.
MapNext ==
    \/ FetchReject
    \/ FetchResolve
    \/ JsonSettle
    \/ Filter
    \/ TransitionEnd
    \/ Render

MapInit == MapConstructed(Dims, 0..MaxSeed) /\ AppConstructed({FullPage}, {FullCounters})

SpecMap == MapInit /\ [][MapNext]_vars

\* The page's map (800 x 600) with its pointer events and listeners.
\* One filter call per run.
EventsNext ==
    \/ FetchReject
    \/ FetchResolve
    \/ JsonSettle
    \/ (filterCalls = 0 /\ Filter)
    \/ TransitionEnd
    \/ MouseOver
    \/ MouseOut
    \/ Click
    \/ AddListener

EventsInit == MapConstructed({PageDim}, {0}) /\ AppConstructed({FullPage}, {FullCounters})

SpecEvents == EventsInit /\ [][EventsNext]_vars

\* The forms, on pages with or without their output regions.
AppNext ==
    \/ Submit
    \/ FormFetchReject
    \/ FormFetchResolve
    \/ FormJsonSettle

AppInit == MapConstructed({PageDim}, {0}) /\ AppConstructed(AllPages, {FullCounters})

SpecApp == AppInit /\ [][AppNext]_vars

\* The page load: the map's fetch and the statistics fetch, each with its own
\* response, on pages with or without the counter elements.
LoadNext ==
    \/ FetchReject
    \/ FetchResolve
    \/ JsonSettle
    \/ StatsFetchReject
    \/ StatsFetchResolve
    \/ StatsJsonSettle
    \/ NotificationExpire

LoadInit == MapConstructed({PageDim}, {0}) /\ AppConstructed({FullPage}, AllCounters)

SpecLoad == LoadInit /\ [][LoadNext]_vars

(***************************************************************************)
(* Properties of the map.                                                  *)
(***************************************************************************)
LoadSettled == smPc \in {"ready", "failed"}

\* The list generateSampleData builds: SampleCount records KOI-1000, KOI-1001, ...
IsSampleData(exo) ==
    /\ exo.kind = "array"
    /\ Len(exo.items) = SampleCount
    /\ \A i \in 1..Len(exo.items) : exo.items[i].id = FirstKoi + i - 1

\* C1: when the fetch of /api/exoplanets rejects, this.exoplanets is exactly
\* 100 generated sample records, each with a classification of the enumerated
\* set, ra in [0, 360) and dec in [-90, 90].
C1_FailedFetchYieldsSample ==
    smResponse.kind = "rejected" =>
        /\ IsSampleData(exoplanets)
        /\ \A i \in 1..Len(exoplanets.items) :
              LET e == exoplanets.items[i] IN
              /\ e.classification \in ClassSet
              /\ 0 <= e.ra /\ e.ra < RaSpan * RandMod
              /\ (0 - DecMax) * RandMod <= e.dec /\ e.dec <= DecMax * RandMod

C1_Witness ==
    /\ smResponse.kind = "rejected"
    /\ smPc = "ready"
    /\ Len(exoplanets.items) = SampleCount
    /\ \E i \in 1..Len(exoplanets.items) : exoplanets.items[i].dec < 0
    /\ \E i \in 1..Len(exoplanets.items) : exoplanets.items[i].ra = 0

\* The fetch rejected, or resolved with a body that does not parse, a
\* non-success status, or JSON that is no array.
FetchFailedOrMalformed ==
    \/ smResponse.kind = "rejected"
    \/ /\ smResponse.kind = "resolved"
       /\ (~smResponse.parses \/ ~smResponse.ok \/ smResponse.value.kind # "array")

\* C2: for every outcome of the data fetch that is a failure or malformed
\* data, once init has run this.exoplanets is the sample data and render has
\* run to completion.
C2_FallbackOnEveryFailure ==
    (LoadSettled /\ FetchFailedOrMalformed) =>
        (IsSampleData(exoplanets) /\ smPc = "ready")

\* C3: after filterByClassification('all') has completed, every marker has
\* opacity 0.8, whatever filter calls came before.
C3_AllRestoresOpacity ==
    (lastFilter = "all" /\ ~TransitionPending) =>
        \A i \in MarkerIdx(svg) : svg[i].opacity = FullOpacity

C3_Witness ==
    /\ lastFilter = "all"
    /\ ~TransitionPending
    /\ dimmed
    /\ filterCalls >= 2
    /\ Cardinality(MarkerIdx(svg)) >= 2

SameButOpacity(n, m) == m = [n EXCEPT !.opacity = m.opacity]

\* C4: filterByClassification(value), value other than 'all', ends with full
\* opacity on exactly the markers whose record has that classification and
\* dimmed opacity on the others; the call and its transition change neither
\* the nodes of the svg (but for the opacity of markers), nor the record list,
\* nor the number of fetches issued.
C4_FilterDimsOthersOnly ==
    /\ []((lastFilter \notin {"all", "none"} /\ ~TransitionPending) =>
            \A i \in MarkerIdx(svg) :
                svg[i].opacity = IF DatumOf(svg[i]).classification = lastFilter
                                 THEN FullOpacity ELSE DimOpacity)
    /\ [][(filterCalls' # filterCalls) =>
            /\ svg' = svg
            /\ exoplanets' = exoplanets
            /\ fetchCount' = fetchCount]_vars
    /\ [][(TransitionPending /\ renders' = renders /\ filterCalls' = filterCalls) =>
            /\ Len(svg') = Len(svg)
            /\ \A i \in 1..Len(svg) :
                  IF IsMarker(svg[i]) THEN SameButOpacity(svg[i], svg'[i])
                  ELSE svg'[i] = svg[i]
            /\ exoplanets' = exoplanets
            /\ fetchCount' = fetchCount]_vars

C4_Witness ==
    /\ lastFilter \in ClassSet
    /\ ~TransitionPending
    /\ \E i \in MarkerIdx(svg) : svg[i].opacity = FullOpacity
    /\ \E i \in MarkerIdx(svg) : svg[i].opacity = DimOpacity

\* Radii of the records the data source produced.
LoadedRadii ==
    IF exoplanets.kind = "array"
    THEN {exoplanets.items[i].radius : i \in 1..Len(exoplanets.items)}
    ELSE {}

SizeOf(radius, c) == calculateSize([radius |-> radius, classification |-> c]).num

SizeIncreasing(radii) ==
    \A r1, r2 \in radii : \A c \in ClassSet :
        r1 < r2 => SizeOf(r1, c) < SizeOf(r2, c)

SizeOrdered(radii) ==
    \A r \in radii :
        /\ SizeOf(r, "Confirmed Exoplanet") > SizeOf(r, "Candidate")
        /\ SizeOf(r, "Candidate") > SizeOf(r, "False Positive")

\* C7: for every planet radius the data source can produce (backend records
\* and generated sample records), calculateSize is strictly increasing in the
\* radius for a fixed classification and, for equal radius, strictly ordered
\* Confirmed > Candidate > False Positive.
C7_SizeMonotoneAndOrdered ==
    SizeIncreasing(LoadedRadii) /\ SizeOrdered(LoadedRadii)

\* What does hold: the size is strictly increasing over all the radii produced,
\* and strictly ordered by classification for the radii above 0.
C7_HoldsAboveZero ==
    /\ SizeIncreasing(LoadedRadii)
    /\ SizeOrdered({r \in LoadedRadii : r > 0})
    /\ 0 \in LoadedRadii => \A c \in ClassSet : SizeOf(0, c) = 0

\* Declinations -90, ..., 90 in RandMod equal steps.
DecGrid == {(2 * k - RandMod) * DecMax : k \in 0..RandMod}

ScaleEndpoints ==
    /\ ScaleApply(yScale, DecMax * RandMod) = MarginTop * ScaleDen(yScale)
    /\ ScaleApply(yScale, (0 - DecMax) * RandMod)
          = (height - MarginBottom) * ScaleDen(yScale)
    /\ ScaleApply(xScale, 0) = MarginLeft * ScaleDen(xScale)
    /\ ScaleApply(xScale, RaSpan * RandMod) = (width - MarginRight) * ScaleDen(xScale)

DecStrictlyDecreasing ==
    \A d1, d2 \in DecGrid : d1 < d2 => ScaleApply(yScale, d1) > ScaleApply(yScale, d2)

\* C8 as stated: for every width and height the declination scale maps 90 to
\* the top margin, -90 to height - bottom margin and is strictly decreasing
\* in between; the right-ascension scale maps 0 to the left margin and 360 to
\* width - right margin.
C8_ScalesForEverySize ==
    SvgCreated => (ScaleEndpoints /\ DecStrictlyDecreasing)

\* C8 amended: the end points are mapped so for every width and height; the
\* declination scale is strictly decreasing when height exceeds the top and
\* bottom margins together (50), and not otherwise.
C8_ScalesAboveMargins ==
    SvgCreated =>
        /\ ScaleEndpoints
        /\ DecStrictlyDecreasing <=> (height > MarginTop + MarginBottom)

C8_Witness ==
    /\ SvgCreated
    /\ height = MarginTop + MarginBottom + 1
    /\ DecStrictlyDecreasing

Last(q) == q[Len(q)]

\* C9: every click on a marker dispatches exactly one 'exoplanetSelected'
\* event whose detail is the record bound to that marker, and every listener
\* registered then receives it; no other step (hover, pointer-leave, filter,
\* transition, load) dispatches or delivers an event.
C9_ClickDispatchesOnce ==
    [][IF clicks' # clicks
       THEN LET d == DatumOf(svg[Last(clicks')]) IN
            /\ d = exoplanets.items[Last(clicks')]
            /\ dispatched' = Append(dispatched, d)
            /\ \A l \in DOMAIN received :
                  received'[l] = IF l \in listeners THEN Append(received[l], d)
                                 ELSE received[l]
       ELSE dispatched' = dispatched /\ received' = received]_vars

C9_Witness ==
    /\ listeners = 1..MaxListeners
    /\ Len(clicks) = 1
    /\ Len(dispatched) = 1
    /\ \A l \in listeners : received[l] = <<exoplanets.items[clicks[1]]>>
    /\ tooltip.opacity = TooltipShown
    /\ filterCalls > 0

(***************************************************************************)
(* Properties of the form handlers.                                        *)
(***************************************************************************)
InFlight(id) == \E r \in requests : r.id = id
RequestOf(id) == CHOOSE r \in requests : r.id = id

\* A step that is a submission (of form Last(submitted')).
SubmitStep == Len(submitted') = Len(submitted) + 1
\* A step in which the handler of submission Last(settled') finishes.
SettleStep == Len(settled') = Len(settled) + 1

\* A submission on a page with the form's output region writes the loading
\* indicator there and sends one request to the form's endpoint.
SubmitShowsLoadingAndSendsOne ==
    SubmitStep =>
        LET f == Last(submitted')
            id == Len(submitted')
        IN region[f] # Absent =>
              /\ region' = [region EXCEPT ![f] = showLoading(f, id)]
              /\ sentCount' = [sentCount EXCEPT ![Endpoint(f)] = @ + 1]
              /\ requests' = requests \cup {Request(id, f, "fetch", FALSE, "none")}

\* Nothing but a submission sends a request; nothing but a submission or a
\* finishing handler writes to a region.
NoOtherWrites ==
    /\ ~SubmitStep => sentCount' = sentCount
    /\ (~SubmitStep /\ ~SettleStep) => region' = region

\* While a region shows the loading indicator, the submission that wrote it
\* is still in flight.
LoadingOnlyWhileInFlight ==
    \A f \in Forms :
        region[f].kind = "loading" =>
            \E r \in requests : r.id = region[f].by /\ r.form = f

\* The finishing handler writes the result panel if the response is a
\* success, and otherwise (network error or non-success response) an error
\* panel with the server's error or the handler's generic message.
SettleWritesAsStated ==
    SettleStep =>
        LET r == RequestOf(Last(settled'))
            panel == region'[r.form]
        IN /\ region' = [region EXCEPT ![r.form] = panel]
           /\ panel.by = r.id
           /\ IF r.pc = "json" /\ r.ok
              THEN panel.kind = ResultKind(r.form)
              ELSE /\ panel.kind = "error"
                   /\ panel.msg \in {ServerMessage, GenericMessage(r.form)}

SettleWritesAsCoded ==
    SettleStep =>
        LET r == RequestOf(Last(settled'))
            panel == region'[r.form]
            parsed == r.pc = "json" /\ r.body # "unparseable"
        IN /\ region' = [region EXCEPT ![r.form] = panel]
           /\ panel.by = r.id
           /\ panel.kind \in {ResultKind(r.form), "error"}
           /\ panel.kind = ResultKind(r.form) <=> (parsed /\ r.ok /\ r.body = "valid")
           /\ panel.kind = "error" =>
                 /\ panel.msg = ServerMessage <=> (parsed /\ ~r.ok /\ r.body = "error")
                 /\ panel.msg = GenericMessage(r.form)
                       <=> (parsed /\ ~r.ok /\ r.body \in {"valid", "empty"})
                 /\ panel.msg = FetchErrorMessage <=> r.pc = "fetch"
                 /\ panel.msg = SyntaxErrorMessage
                       <=> (r.pc = "json" /\ r.body = "unparseable")
                 /\ panel.msg = TypeErrorMessage
                       <=> (parsed /\ (r.body = "null" \/ (r.ok /\ r.body # "valid")))

C6_NoFailureEscapes ==
    /\ appUnhandled = {}
    /\ mapUnhandled = 0
    /\ \A id \in 1..Len(submitted) :
          InFlight(id) \/ \E k \in 1..Len(settled) : settled[k] = id

\* Submissions of form f that have finished, in the order they finished.
SettledOf(f) == SelectSeq(settled, LAMBDA id : submitted[id] = f)

\* C10: once no submission of a form is in flight, its output region shows
\* the panel of the submission whose response settled last, also when that is
\* the earlier submission; a submission leaves flight only by settling, and a
\* submission made while another is in flight is sent all the same.
C10_LastResponseWins ==
    /\ [](\A f \in Forms :
            (region[f] # Absent /\ SettledOf(f) # <<>>
               /\ ~\E r \in requests : r.form = f) =>
                /\ region[f].by = Last(SettledOf(f))
                /\ region[f].kind \in {ResultKind(f), "error"})
    /\ [][\A r \in requests :
             (\E q \in requests' : q.id = r.id) \/ (SettleStep /\ Last(settled') = r.id)]_vars
    /\ [][(SubmitStep /\ region[Last(submitted')] # Absent) =>
             /\ \E q \in requests' : q.id = Len(submitted')
             /\ \A r \in requests : r \in requests']_vars

C10_Witness ==
    /\ \E f \in Forms :
          /\ submitted = <<f, f>>
          /\ settled = <<2, 1>>
          /\ region[f].by = 1
          /\ region[f].kind = ResultKind(f)
    /\ requests = {}

(***************************************************************************)
(* Properties of render.                                                   *)
(***************************************************************************)
\* C11: render guards against a record whose classification is none of the
\* three enumerated values: no marker has the fill colour undefined or a
\* radius that is no number.
C11_RenderGuardsUnknownClass ==
    \A i \in MarkerIdx(svg) :
        /\ svg[i].fill # "undefined"
        /\ ~svg[i].r.nan

\* What does hold: the markers of records with an enumerated classification
\* have the colour of the table and a numeric radius; those of any other
\* record have the fill undefined and the radius NaN.
C11_StyledExactlyWhenEnumerated ==
    \A i \in MarkerIdx(svg) :
        IF DatumOf(svg[i]).classification \in ClassSet
        THEN svg[i].fill \in {"#00ff00", "#ffff00", "#ff4444"} /\ ~svg[i].r.nan
        ELSE svg[i].fill = "undefined" /\ svg[i].r.nan

CountTag(nodes, tag) == Cardinality({i \in 1..Len(nodes) : nodes[i].tag = tag})

\* The svg holds one marker per record of this.exoplanets, in list order,
\* then one path per constellation, one ellipse and one gradient definition.
DrawnOnce ==
    LET items == exoplanets.items IN
    /\ Len(svg) = Len(items) + Len(generateConstellationData) + 2
    /\ \A i \in 1..Len(items) : IsMarker(svg[i]) /\ DatumOf(svg[i]) = items[i]
    /\ MarkerIdx(svg) = 1..Len(items)
    /\ CountTag(svg, "path") = Len(generateConstellationData)
    /\ CountTag(svg, "ellipse") = 1
    /\ CountTag(svg, "defs") = 1

\* C13: render never runs before the data load has settled, and after any
\* number of render calls the svg holds exactly one marker per record of the
\* list, in list order, one path per constellation, one ellipse and one
\* gradient definition.
C13_RenderDrawsOnce ==
    /\ renders > 0 => LoadSettled
    /\ renders > 0 => DrawnOnce

\* What does hold: render never runs before the load has settled; it draws
\* every node once unless this.exoplanets is null, where it throws after
\* clearing the svg and leaves it empty.
C13_DrawsOnceUnlessNull ==
    /\ renders > 0 => LoadSettled
    /\ (renders > 0 /\ exoplanets.kind # "null") => DrawnOnce
    /\ (renders > 0 /\ exoplanets.kind = "null") => svg = <<>>

(***************************************************************************)
(* Properties of the statistics readout.                                   *)
(***************************************************************************)
StatsDone == statsPc = "done"
StatsFailed == StatsDone /\ StatsThrows(statsResponse)

PriorCounters(ctrs) == \A id \in CounterIds : ctrs[id] \in {NoCounter, PriorText}

\* C12: the statistics readout is refreshed by exactly one fetch at page
\* load, whatever the map's fetch does; when that fetch fails (network error,
\* malformed JSON or a payload that is no array) the failure is logged, the
\* four counter elements keep their prior text and no notification is added
\* to the page.
C12_FailedStatsLoadOnlyLogs ==
    /\ statsFetchCount = 1
    /\ StatsFailed =>
          /\ consoleErrors = 1
          /\ PriorCounters(counters)
          /\ notified = 0

\* What does hold: one fetch; a failed load is logged once and leaves the
\* counters alone; a load that yields an array writes its counts to the
\* counter elements that exist; and either way loadInitialData appends the
\* success notification, never the error one.
C12_LoadAlwaysNotifiesSuccess ==
    /\ statsFetchCount = 1
    /\ ~StatsDone => consoleErrors = 0 /\ PriorCounters(counters) /\ notified = 0
    /\ StatsFailed => consoleErrors = 1 /\ PriorCounters(counters)
    /\ (StatsDone /\ ~StatsFailed) =>
          /\ consoleErrors = 0
          /\ counters = updateStatisticsDisplay(counters, StatsOf(statsResponse.value.items))
          /\ \A id \in CounterIds : counters[id] # PriorText
    /\ StatsDone => notified = 1
    /\ \A i \in 1..Len(notifications) : notifications[i].type = "success"

====
